---- MODULE Spec2Model ----
(***************************************************************************)
(* Model of TrainModels (src/train_model.py): the constructor's train/test *)
(* split and feature extraction, and the train_models pipeline: benchmark  *)
(* of the two registered classifiers, selection, grid search, refit,       *)
(* neural network training and the final comparison.                       *)
(*                                                                         *)
(* Rows of the data frame are the integers 1..n; only the gender column is *)
(* kept (the text column is represented by the vectorizer configuration    *)
(* that a feature matrix was built with).  Labels are integers whose order *)
(* is the sort order LabelEncoder uses.  Accuracy scores are the exact     *)
(* fractions num/den the metric computes.                                  *)
(***************************************************************************)
EXTENDS Integers, Sequences, FiniteSets, TLC

VARIABLES pc, df, train, test, X, clfs, scores, best, best_params,
          simple_score, simple_model, keras_score, y_matrix, result,
          raised, trace, selIn, selOut

vars == <<pc, df, train, test, X, clfs, scores, best, best_params,
          simple_score, simple_model, keras_score, y_matrix, result,
          raised, trace, selIn, selOut>>

\* ---------------------------------------------------------------- bounds
MaxRows == 6
MaxLabel == 3
MaxSelLen == 3
MaxSelScore == 2

\* ------------------------------------------------------ program constants
NumClasses == 3

Labels == 1..MaxLabel
Unset == "unset"
NoScore == [num |-> -1, den |-> 1]
NoFeatures == [stop |-> Unset, train |-> {}, test |-> {}]
NoMatrix == [i \in {} |-> <<>>]

\* {"SVM": SGDClassifier(), "Perceptron": Perceptron()} in insertion order
ClfOrder == <<"SVM", "Perceptron">>
ClfNames == {ClfOrder[i] : i \in 1..Len(ClfOrder)}

\* stop-word settings of the grid: None and 'english'
StopWords == {"None", "english"}

\* TfidfVectorizer() has stop_words=None
DefaultStopWords == "None"

\* an untrained classifier instance
Untrained == [fits |-> 0, stop |-> Unset]

\* ------------------------------------------------------------ pure parts

\* variant: the fraction taken as the train share, n_test = ceil(0.8 * n)
NTestTrainShare(n) == (4 * n + 4) \div 5

\* train_test_split(data_frame, test_size=0.2): n_test = ceil(0.2 * n)
NTest(n) == (n + 4) \div 5

\* classes seen in a partition (LabelEncoder.fit / classifier classes_)
Classes(rows) == {df[i] : i \in rows}

\* LabelEncoder.transform: index of the label among the sorted classes
Encode(classes, l) == Cardinality({c \in classes : c < l})

\* variant: the 1 placed one index too far
to_categoricalShifted(c, k) == [i \in 0..(k - 1) |-> IF i = c + 1 THEN 1 ELSE 0]

\* keras.utils.to_categorical(c, 3) for one code
to_categorical(c, k) == [i \in 0..(k - 1) |-> IF i = c THEN 1 ELSE 0]

\* variant: the match count normalised by one row less
accuracy_scoreOffByOne(rows, pred) ==
    [num |-> Cardinality({i \in rows : pred[i] = df[i]}),
     den |-> Cardinality(rows) - 1]

\* metrics.accuracy_score(y_true, pred) over the rows of a partition
accuracy_score(rows, pred) ==
    [num |-> Cardinality({i \in rows : pred[i] = df[i]}),
     den |-> Cardinality(rows)]

\* float comparisons on scores
ScoreGt(a, b) == a.num * b.den > b.num * a.den
ScoreGeq(a, b) == a.num * b.den >= b.num * a.den
ScoreEq(a, b) == a.num * b.den = b.num * a.den

\* variant: a later item with an equal key replaces the current one
RECURSIVE MaxItemLast(_, _, _)
MaxItemLast(items, i, cur) ==
    IF i > Len(items) THEN cur
    ELSE MaxItemLast(items, i + 1,
                     IF ScoreGeq(items[i][2], cur[2]) THEN items[i] ELSE cur)

\* max(scores.items(), key=operator.itemgetter(1))[0]: the first item is
\* kept until an item with a strictly greater key is met
RECURSIVE MaxItem(_, _, _)
MaxItem(items, i, cur) ==
    IF i > Len(items) THEN cur
    ELSE MaxItem(items, i + 1,
                 IF ScoreGt(items[i][2], cur[2]) THEN items[i] ELSE cur)

get_best_score(items) == MaxItem(items, 2, items[1])[1]

\* variant: the branches exchanged
FinalModelSwapped(ks, ss, km, sm) == IF ScoreGeq(ks, ss) THEN sm ELSE km

\* variant: strict comparison
FinalModelStrict(ks, ss, km, sm) == IF ScoreGt(ks, ss) THEN km ELSE sm

\* if keras_score >= simple_score: return keras_model else simple_model
FinalModel(ks, ss, km, sm) == IF ScoreGeq(ks, ss) THEN km ELSE sm

KerasModel == "keras_model"

\* ----------------------------------------------------------------- state

Rows == DOMAIN df

\* names usable as keys of a score mapping handed to the selector
SelNames == ClfNames \cup {"m3", "m4", "m5"}
SelScores == {[num |-> k, den |-> MaxSelScore] : k \in 0..MaxSelScore}
SelItems == {s \in UNION {[1..k -> SelNames \X SelScores] : k \in 1..MaxSelLen} :
               \A i, j \in DOMAIN s : i # j => s[i][1] # s[j][1]}

Idle ==
    /\ train = {}
    /\ test = {}
    /\ X = NoFeatures
    /\ clfs = [c \in ClfNames |-> Untrained]
    /\ scores = <<>>
    /\ best = Unset
    /\ best_params = Unset
    /\ simple_score = NoScore
    /\ simple_model = Unset
    /\ keras_score = NoScore
    /\ y_matrix = NoMatrix
    /\ result = Unset
    /\ raised = "none"
    /\ trace = <<>>
    /\ selOut = Unset

\* the gender columns considered: train_test_split shuffles the rows, so
\* one row order stands for each multiset of labels
Frames ==
    UNION {{f \in [1..n -> Labels] :
               \A i \in 1..(n - 1) : f[i] <= f[i + 1]} : n \in 0..MaxRows}

\* a data frame about to be handed to TrainModels(data_frame)
PipeInit ==
    /\ pc = "new"
    /\ df \in Frames
    /\ selIn = <<>>
    /\ Idle

\* a non-empty score mapping about to be handed to __get_best_score
SelInit ==
    /\ pc = "sel"
    /\ df = <<>>
    /\ selIn \in SelItems
    /\ Idle

Init == PipeInit \/ SelInit

\* variant: the exception is swallowed and the step is run again
FailSwallowed(step) ==
    /\ pc' = pc
    /\ raised' = step
    /\ trace' = Append(trace, <<step, "raise">>)

\* an exception leaves the step: nothing catches it
Fail(step) ==
    /\ pc' = "failed"
    /\ raised' = step
    /\ trace' = Append(trace, <<step, "raise">>)

Step(next, ev) ==
    /\ pc' = next
    /\ raised' = raised
    /\ trace' = Append(trace, ev)

\* the partitions train_test_split may return: a random test part of
\* NTest(n) rows and the remaining rows as train part
Split(rows) ==
    {<<rows \ t, t>> : t \in {u \in SUBSET rows :
                                Cardinality(u) = NTest(Cardinality(rows))}}

\* TfidfVectorizer(stop_words=sw) fitted on the train text, applied to both
Features(sw, tr, te) == [stop |-> sw, train |-> tr, test |-> te]

\* __init__
Construct ==
    /\ pc = "new"
    /\ \E p \in Split(Rows) :
          /\ p[1] # {}
          /\ train' = p[1]
          /\ test' = p[2]
          /\ X' = Features(DefaultStopWords, p[1], p[2])
    /\ Step("bench", <<"construct", "-">>)
    /\ UNCHANGED <<df, clfs, scores, best, best_params, simple_score,
                   simple_model, keras_score, y_matrix, result, selIn, selOut>>

\* __init__ raising: the split of a frame with no train row, or the
\* vectorizer on the split frame
ConstructFail ==
    /\ pc = "new"
    /\ \/ /\ \A p \in Split(Rows) : p[1] = {}
          /\ Fail("split")
          /\ UNCHANGED <<train, test>>
       \/ /\ \E p \in Split(Rows) :
                /\ p[1] # {}
                /\ train' = p[1]
                /\ test' = p[2]
          /\ Fail("features")
    /\ UNCHANGED <<df, X, clfs, scores, best, best_params, simple_score,
                   simple_model, keras_score, y_matrix, result, selIn, selOut>>

\* clf.fit(features, labels) on a registry instance
Fit(name, sw) == [clfs EXCEPT ![name] = [fits |-> @.fits + 1, stop |-> sw]]

\* the loop of train_models calling __benchmark(clf)
Benchmark ==
    /\ pc = "bench"
    /\ Len(scores) < Len(ClfOrder)
    /\ Cardinality(Classes(train)) >= 2
    /\ LET name == ClfOrder[Len(scores) + 1] IN
          /\ clfs' = Fit(name, X.stop)
          /\ \E pred \in [X.test -> Classes(train)] :
                scores' = Append(scores, <<name, accuracy_score(test, pred)>>)
          /\ Step(IF Len(scores) + 1 = Len(ClfOrder) THEN "select" ELSE "bench",
                  <<"benchmark", name>>)
    /\ UNCHANGED <<df, train, test, X, best, best_params, simple_score,
                   simple_model, keras_score, y_matrix, result, selIn, selOut>>

\* __benchmark raising in fit (one class only, or the solver) or in predict
BenchmarkFail ==
    /\ pc = "bench"
    /\ Len(scores) < Len(ClfOrder)
    /\ LET name == ClfOrder[Len(scores) + 1] IN
          \/ /\ clfs' = clfs
             /\ Fail("benchmark")
          \/ /\ Cardinality(Classes(train)) >= 2
             /\ clfs' = Fit(name, X.stop)
             /\ Fail("benchmark")
    /\ UNCHANGED <<df, train, test, X, scores, best, best_params, simple_score,
                   simple_model, keras_score, y_matrix, result, selIn, selOut>>

\* best = self.__get_best_score(scores)
Select ==
    /\ pc = "select"
    /\ best' = get_best_score(scores)
    /\ Step("optimize", <<"select", best'>>)
    /\ UNCHANGED <<df, train, test, X, clfs, scores, best_params, simple_score,
                   simple_model, keras_score, y_matrix, result, selIn, selOut>>

\* variant: the first registered classifier is tuned, whatever was selected
OptimizeFirst ==
    /\ pc = "optimize"
    /\ best_params' \in StopWords
    /\ Step("refit", <<"optimize", ClfOrder[1]>>)
    /\ UNCHANGED <<df, train, test, X, clfs, scores, best, simple_score,
                   simple_model, keras_score, y_matrix, result, selIn, selOut>>

\* variant: the grid search fits the instance it is given
OptimizeInPlace ==
    /\ pc = "optimize"
    /\ \E sw \in StopWords :
          /\ best_params' = sw
          /\ clfs' = [clfs EXCEPT ![best] = [fits |-> @.fits + 1, stop |-> sw]]
    /\ Step("refit", <<"optimize", best>>)
    /\ UNCHANGED <<df, train, test, X, scores, best, simple_score,
                   simple_model, keras_score, y_matrix, result, selIn, selOut>>

\* optimize(self.__clfs[best]): GridSearchCV fits clones of the pipeline,
\* the instance passed in is left as it was
Optimize ==
    /\ pc = "optimize"
    /\ best_params' \in StopWords
    /\ Step("refit", <<"optimize", best>>)
    /\ UNCHANGED <<df, train, test, X, clfs, scores, best, simple_score,
                   simple_model, keras_score, y_matrix, result, selIn, selOut>>

OptimizeFail ==
    /\ pc = "optimize"
    /\ Fail("optimize")
    /\ UNCHANGED <<df, train, test, X, clfs, scores, best, best_params,
                   simple_score, simple_model, keras_score, y_matrix, result,
                   selIn, selOut>>

\* variant: the matrices built for the refit are stored on the trainer
RunBestModelStoring ==
    /\ pc = "refit"
    /\ LET local == Features(best_params, train, test) IN
          /\ clfs' = Fit(best, local.stop)
          /\ \E pred \in [local.test -> Classes(train)] :
                simple_score' = accuracy_score(test, pred)
          /\ simple_model' = best
          /\ X' = local
    /\ Step("nn", <<"refit", best>>)
    /\ UNCHANGED <<df, train, test, scores, best, best_params,
                   keras_score, y_matrix, result, selIn, selOut>>

\* __run_best_model(best_params, best): the matrices built with the chosen
\* stop-word setting are locals; the registry instance is fitted on them
RunBestModel ==
    /\ pc = "refit"
    /\ LET local == Features(best_params, train, test) IN
          /\ clfs' = Fit(best, local.stop)
          /\ \E pred \in [local.test -> Classes(train)] :
                simple_score' = accuracy_score(test, pred)
          /\ simple_model' = best
          /\ X' = X
    /\ Step("nn", <<"refit", best>>)
    /\ UNCHANGED <<df, train, test, scores, best, best_params,
                   keras_score, y_matrix, result, selIn, selOut>>

\* __run_best_model raising in the vectorizer, in fit or in predict
RunBestModelFail ==
    /\ pc = "refit"
    /\ \/ clfs' = clfs
       \/ clfs' = Fit(best, best_params)
    /\ Fail("refit")
    /\ UNCHANGED <<df, train, test, X, scores, best, best_params, simple_score,
                   simple_model, keras_score, y_matrix, result, selIn, selOut>>

\* build_matrix: LabelEncoder fitted on Y_train, both label columns encoded
\* and passed through to_categorical(_, 3)
CanBuildMatrix ==
    /\ Classes(test) \subseteq Classes(train)
    /\ Cardinality(Classes(train)) <= NumClasses

build_matrix ==
    [i \in train \cup test |->
        to_categorical(Encode(Classes(train), df[i]), NumClasses)]

\* model.evaluate with loss binary_crossentropy and metrics=['accuracy']:
\* the fraction of the rounded outputs that equal the one-hot entries
binary_accuracy(y, out) ==
    [num |-> Cardinality({e \in test \X (0..(NumClasses - 1)) :
                             out[e] = y[e[1]][e[2]]}),
     den |-> NumClasses * Cardinality(test)]

\* train_sequential
TrainSequential ==
    /\ pc = "nn"
    /\ CanBuildMatrix
    /\ y_matrix' = build_matrix
    /\ \E out \in [test \X (0..(NumClasses - 1)) -> {0, 1}] :
          keras_score' = binary_accuracy(y_matrix', out)
    /\ Step("compare", <<"nn", "-">>)
    /\ UNCHANGED <<df, train, test, X, clfs, scores, best, best_params,
                   simple_score, simple_model, result, selIn, selOut>>

\* train_sequential raising: an unseen test label in LabelEncoder.transform,
\* a code outside 0..2 in to_categorical, or the network
TrainSequentialFail ==
    /\ pc = "nn"
    /\ \/ y_matrix' = y_matrix
       \/ CanBuildMatrix /\ y_matrix' = build_matrix
    /\ Fail("nn")
    /\ UNCHANGED <<df, train, test, X, clfs, scores, best, best_params,
                   simple_score, simple_model, keras_score, result,
                   selIn, selOut>>

\* the final comparison and return of train_models
Compare ==
    /\ pc = "compare"
    /\ result' = FinalModel(keras_score, simple_score, KerasModel, simple_model)
    /\ Step("done", <<"compare", "-">>)
    /\ UNCHANGED <<df, train, test, X, clfs, scores, best, best_params,
                   simple_score, simple_model, keras_score, y_matrix,
                   selIn, selOut>>

\* a direct call of the static selector on a score mapping
ApplySelect ==
    /\ pc = "sel"
    /\ selOut' = get_best_score(selIn)
    /\ pc' = "selDone"
    /\ UNCHANGED <<df, train, test, X, clfs, scores, best, best_params,
                   simple_score, simple_model, keras_score, y_matrix, result,
                   raised, trace, selIn>>

Next ==
    \/ Construct
    \/ ConstructFail
    \/ Benchmark
    \/ BenchmarkFail
    \/ Select
    \/ Optimize
    \/ OptimizeFail
    \/ RunBestModel
    \/ RunBestModelFail
    \/ TrainSequential
    \/ TrainSequentialFail
    \/ Compare
    \/ ApplySelect

Spec == Init /\ [][Next]_vars

\* ---------------------------------------------------------------- claims

Done == pc = "done"

\* C1: when the two final scores differ, train_models returns the model
\* with the strictly higher score: the network if keras_score is higher,
\* the refitted registry classifier if simple_score is higher.
C1_HigherScoreReturned ==
    (Done /\ ~ScoreEq(simple_score, keras_score)) =>
        /\ ScoreGt(keras_score, simple_score) => result = KerasModel
        /\ ScoreGt(simple_score, keras_score) =>
              result = simple_model /\ result = best /\ result \in ClfNames

C1_Witness ==
    Done /\ ScoreGt(simple_score, keras_score) /\ result = simple_model

\* C2 as stated: on equal scores train_models returns the classical model.
C2_TieReturnsClassical ==
    (Done /\ ScoreEq(keras_score, simple_score)) => result = simple_model

\* C2 amended: on equal scores train_models returns the neural network.
C2_TieReturnsNetwork ==
    (Done /\ ScoreEq(keras_score, simple_score)) => result = KerasModel

C2_Witness ==
    Done /\ ScoreEq(keras_score, simple_score) /\ result = KerasModel

\* the name at the first position that holds the maximum score
IsFirstMax(items, name) ==
    \E i \in DOMAIN items :
        /\ items[i][1] = name
        /\ \A j \in DOMAIN items : ~ScoreGt(items[j][2], items[i][2])
        /\ \A j \in 1..(i - 1) : ScoreGt(items[i][2], items[j][2])

\* C3: on a non-empty mapping the selector returns a name with the maximum
\* score, the first such name in insertion order; train_models inserts the
\* scores in registry order, so a tie of the two benchmarks selects "SVM".
C3_SelectorFirstMaximum ==
    /\ pc = "selDone" => IsFirstMax(selIn, selOut)
    /\ \A i \in DOMAIN scores : scores[i][1] = ClfOrder[i]
    /\ best # Unset =>
          /\ IsFirstMax(scores, best)
          /\ ScoreEq(scores[1][2], scores[2][2]) => best = "SVM"

C3_Witness ==
    /\ pc = "selDone"
    /\ Len(selIn) = 3
    /\ ScoreGt(selIn[2][2], selIn[1][2])
    /\ ScoreEq(selIn[2][2], selIn[3][2])
    /\ selOut = selIn[2][1]

\* the steps of a complete run that selected b
ExpectedTrace(b) ==
    <<  <<"construct", "-">>,
        <<"benchmark", ClfOrder[1]>>,
        <<"benchmark", ClfOrder[2]>>,
        <<"select", b>>,
        <<"optimize", b>>,
        <<"refit", b>>,
        <<"nn", "-">>,
        <<"compare", "-">>  >>

\* the steps that ran to their end
Completed == IF raised = "none" THEN trace ELSE SubSeq(trace, 1, Len(trace) - 1)

\* C4: the steps of a run occur in one fixed order, each once: both
\* benchmarks, the selection, the grid search and the refit of the selected
\* registry entry, the network, the comparison last; the classifier that
\* was not selected is never tuned, refitted or returned.
C4_FixedStepOrder ==
    /\ Len(Completed) <= Len(ExpectedTrace(best))
    /\ \A i \in DOMAIN Completed : Completed[i] = ExpectedTrace(best)[i]
    /\ Done => Completed = ExpectedTrace(best)
    /\ best # Unset => best \in ClfNames
    /\ \A c \in ClfNames : c # best => clfs[c].fits <= 1 /\ result # c

C4_Witness ==
    /\ Done
    /\ best = "Perceptron"
    /\ trace = ExpectedTrace("Perceptron")
    /\ clfs["SVM"].fits = 1
    /\ clfs["Perceptron"].fits = 2

\* construction got past train_test_split
SplitDone == pc \notin {"new", "sel", "selDone"} /\ raised # "split"

Abs(k) == IF k < 0 THEN -k ELSE k

\* C5: the split of a frame of n rows yields two disjoint partitions whose
\* sizes sum to n, the test size within one row of 0.2 * n
\* (stated on integers: |5 * test - n| <= 5).
C5_SplitPartitions ==
    SplitDone =>
        /\ train \cap test = {}
        /\ train \cup test = Rows
        /\ Cardinality(train) + Cardinality(test) = Cardinality(Rows)
        /\ Abs(5 * Cardinality(test) - Cardinality(Rows)) <= 5

C5_Witness ==
    /\ SplitDone
    /\ Cardinality(Rows) = 6
    /\ Cardinality(test) = 2
    /\ Cardinality(train) = 4

\* C6: a failure of a step is not caught, retried or translated: the run is
\* in the failed state at that step, nothing is returned, and no step
\* (the failed one included) runs afterwards.
C6_FailurePropagates ==
    [][ /\ raised' # "none" =>
              /\ pc' = "failed"
              /\ result' = Unset
              /\ trace'[Len(trace')] = <<raised', "raise">>
        /\ raised # "none" => UNCHANGED vars ]_vars

C6_Witness ==
    /\ pc = "failed"
    /\ raised = "refit"
    /\ Len(trace) = 6
    /\ result = Unset

\* the accuracies reported so far by the benchmark and the refit
Reported ==
    {scores[i][2] : i \in DOMAIN scores}
        \cup (IF simple_model # Unset THEN {simple_score} ELSE {})

\* C7: an accuracy reported for any predictions on a non-empty test
\* partition, matches divided by test rows, lies in [0, 1].
C7_AccuracyInUnitInterval ==
    \A a \in Reported :
        /\ a.den = Cardinality(test)
        /\ a.den > 0
        /\ 0 <= a.num
        /\ a.num <= a.den

C7_Witness ==
    /\ Len(scores) = 2
    /\ scores[1][2].num = 0
    /\ scores[2][2].num = scores[2][2].den
    /\ test # {}

\* decoding of a one-hot vector: the index that holds the 1
Decode(v) == CHOOSE i \in DOMAIN v : v[i] = 1

\* C8: for every label code c in 0..2 the 3-wide one-hot vector has its
\* single 1 at index c, decodes to c and encodes again to the same vector;
\* so do the vectors build_matrix made for the rows.
C8_OneHotRoundTrip ==
    /\ \A c \in 0..(NumClasses - 1) :
          LET v == to_categorical(c, NumClasses) IN
             /\ DOMAIN v = 0..(NumClasses - 1)
             /\ {i \in DOMAIN v : v[i] = 1} = {c}
             /\ \A i \in DOMAIN v : v[i] \in {0, 1}
             /\ Decode(v) = c
             /\ to_categorical(Decode(v), NumClasses) = v
    /\ \A r \in DOMAIN y_matrix :
          LET c == Encode(Classes(train), df[r])
              v == y_matrix[r] IN
             /\ c \in 0..(NumClasses - 1)
             /\ {i \in DOMAIN v : v[i] = 1} = {c}
             /\ Decode(v) = c
             /\ to_categorical(Decode(v), NumClasses) = v

C8_Witness ==
    /\ DOMAIN y_matrix = Rows
    /\ {Decode(y_matrix[r]) : r \in DOMAIN y_matrix} = 0..(NumClasses - 1)

\* C9 as stated: the registry keeps its keys, and an entry changes only in
\* the grid search or the refit of its result.
C9_OnlyGridSearchRefitMutates ==
    [][ /\ DOMAIN clfs' = DOMAIN clfs
        /\ clfs' # clfs => pc \in {"optimize", "refit"} ]_vars

\* C9 amended: the registry keeps its keys; an entry changes only in the
\* benchmark (the entry benchmarked) and in the refit (the selected entry);
\* selection, grid search, network and comparison leave every entry alone.
C9_BenchmarkAndRefitMutate ==
    [][ /\ DOMAIN clfs' = DOMAIN clfs
        /\ DOMAIN clfs = ClfNames
        /\ clfs' # clfs =>
              \/ /\ pc = "bench"
                 /\ \A c \in ClfNames :
                       clfs'[c] # clfs[c] => c = ClfOrder[Len(scores) + 1]
              \/ /\ pc = "refit"
                 /\ \A c \in ClfNames : clfs'[c] # clfs[c] => c = best
        /\ pc \in {"select", "optimize", "nn", "compare"} => clfs' = clfs ]_vars

C9_Witness ==
    /\ Done
    /\ clfs[best].fits = 2
    /\ \A c \in ClfNames : clfs[c].fits >= 1

\* C10 as stated: the stored matrices are those of the vectorizer setting
\* the selected classifier was last fitted with.
C10_StoredMatricesFollowRefit ==
    (best # Unset /\ clfs[best].fits > 0) => X.stop = clfs[best].stop

\* C10 amended: the stored matrices are built once, at construction, with
\* the default vectorizer (no stop-word list) and stay as built; the refit
\* fits the selected classifier on matrices of the chosen setting that it
\* keeps to itself, so the two agree only when no stop-word list was chosen.
C10_StoredMatricesFixed ==
    /\ (SplitDone /\ raised # "features") =>
           X = Features(DefaultStopWords, train, test)
    /\ simple_model # Unset =>
           /\ clfs[best].stop = best_params
           /\ (X.stop = clfs[best].stop) <=> (best_params = DefaultStopWords)

C10_Witness ==
    /\ simple_model # Unset
    /\ best_params = "english"
    /\ clfs[best].stop = "english"
    /\ X.stop = "None"

====
